---- MODULE Spec2Model ----
(***************************************************************************)
(* rsyncr: an rsync wrapper that previews a synchronization (dry run),     *)
(* classifies the itemized changes and only then runs the real rsync.      *)
(* The model follows src/rsyncr/rsyncr.py: parseLine, the classification   *)
(* of the main script (lines 316-337) and the control flow of the main     *)
(* script (lines 289-382).  Strings are TLC strings, handled as sequences  *)
(* of characters (Len, SubSeq, \o).                                        *)
(***************************************************************************)
EXTENDS Integers, Sequences, FiniteSets, TLC

VARIABLES
  add,          \* --add / -a
  sync,         \* --sync / -s
  simulate,     \* --simulate / -n
  force,        \* --force / -y, also set by answering "y" in the ask loop
  ask,          \* --ask / -i
  file,         \* TRUE iff --file <path> was given (single file mode)
  estimate,     \* --estimate
  skipMove,     \* --skip-move or --skip-moves
  strategy,     \* the distance function selected at start-up
  pc,           \* position in the main script ("exit<line>": left by sys.exit there)
  invocations,  \* the commands handed to subprocess.Popen so far, in order
  simStatus,    \* exit status of the dry-run process (never read by the script)
  lines,        \* output lines of the dry run
  entries,      \* parsed FileStates with a non-empty path (line 317)
  classified,   \* TRUE once lines 319-337 have run
  result,       \* newdirs, added, modified, removes, potentialMoves, potentialMoveDirs
  exitCode      \* process exit status, -1 while running

vars == <<add, sync, simulate, force, ask, file, estimate, skipMove, strategy,
          pc, invocations, simStatus, lines, entries, classified, result, exitCode>>

(***************************************************************************)
(* Constants of the script.                                                *)
(***************************************************************************)
MAX_MOVE_DIRS == 2

MAX_EDIT_DISTANCE == 5

\* Python's None (a failed dict.get).
None == "None"

State(c) ==
  CASE c = "." -> "unchanged"
    [] c = ">" -> "store"
    [] c = "c" -> "changed"
    [] c = "<" -> "restored"
    [] c = "*" -> "message"
    [] OTHER   -> None

Entry(c) ==
  CASE c = "f" -> "file"
    [] c = "d" -> "dir"
    [] c = "u" -> "unknown"
    [] OTHER   -> None

(***************************************************************************)
(* String helpers: Python's str operations used by the script.             *)
(***************************************************************************)
Char(s, i) == SubSeq(s, i, i)

\* s[i:] with a 0-based start i
From(s, i) == SubSeq(s, i + 1, Len(s))

\* s.startswith(p)
StartsWith(s, p) == Len(p) <= Len(s) /\ SubSeq(s, 1, Len(p)) = p

\* c in s, for a single character c
CharIn(c, s) == \E i \in 1..Len(s) : Char(s, i) = c

\* s.index(c) as a 1-based position, 0 when c does not occur (ValueError)
IndexOf(s, c) ==
  IF CharIn(c, s) THEN CHOOSE i \in 1..Len(s) :
                         Char(s, i) = c /\ \A j \in 1..(i - 1) : Char(s, j) # c
                  ELSE 0

\* position of the last c in s, 0 when c does not occur
RIndexOf(s, c) ==
  IF CharIn(c, s) THEN CHOOSE i \in 1..Len(s) :
                         Char(s, i) = c /\ \A j \in (i + 1)..Len(s) : Char(s, j) # c
                  ELSE 0

\* the test of line 92 as "any character other than the no-change dot"
xanyNotDot(chars, lizt) == \E i \in 1..Len(lizt) : Char(lizt, i) # "."

\* xany(lambda _: _ in chars, lizt): a left fold of "or" over the characters of lizt
xany(chars, lizt) == \E i \in 1..Len(lizt) : CharIn(Char(lizt, i), chars)

\* xall(lambda _: _ == c, lizt): a left fold of "and" over the characters of lizt
xall(c, lizt) == \A i \in 1..Len(lizt) : Char(lizt, i) = c

\* code point order of the characters that occur in paths
Ascii == " #*+./0123456789:<>_abcdefghijklmnopqrstuvwxyz"

Ord(c) == IndexOf(Ascii, c)

\* a < b for Python strings (lexicographic by code point)
RECURSIVE StrLess(_, _)
StrLess(a, b) ==
  IF b = "" THEN FALSE
  ELSE IF a = "" THEN TRUE
  ELSE IF Char(a, 1) # Char(b, 1) THEN Ord(Char(a, 1)) < Ord(Char(b, 1))
  ELSE StrLess(From(a, 1), From(b, 1))

(***************************************************************************)
(* os.path on POSIX.                                                       *)
(***************************************************************************)
\* the process's current directory and, from it, the common parent root
Cwd == "/r/c"

\* one path segment finished: normpath drops "" and ".", ".." pops
PushSeg(segs, cur) ==
  IF cur = "" \/ cur = "." THEN segs
  ELSE IF cur = ".." THEN (IF Len(segs) = 0 THEN segs ELSE SubSeq(segs, 1, Len(segs) - 1))
  ELSE Append(segs, cur)

RECURSIVE NormSegs(_, _, _, _)
NormSegs(s, i, cur, segs) ==
  IF i > Len(s) THEN PushSeg(segs, cur)
  ELSE IF Char(s, i) = "/" THEN NormSegs(s, i + 1, "", PushSeg(segs, cur))
  ELSE NormSegs(s, i + 1, cur \o Char(s, i), segs)

RECURSIVE JoinSegs(_)
JoinSegs(segs) ==
  IF Len(segs) = 0 THEN "" ELSE "/" \o Head(segs) \o JoinSegs(Tail(segs))

\* os.path.abspath(path) = normpath(join(getcwd(), path))
abspath(path) ==
  LET joined == IF StartsWith(path, "/") THEN path ELSE Cwd \o "/" \o path
      segs   == NormSegs(joined, 1, "", <<>>)
  IN  IF Len(segs) = 0 THEN "/" ELSE JoinSegs(segs)

\* os.path.basename(p)
basename(p) == From(p, RIndexOf(p, "/"))

\* os.path.dirname(p)
dirname(p) ==
  LET i    == RIndexOf(p, "/")
      head == SubSeq(p, 1, i)
  IN  IF head = "/" \/ head = "" THEN head ELSE SubSeq(p, 1, i - 1)

\* cygwinify outside win32
cygwinify(path) == IF Char(path, Len(path)) = "/" THEN SubSeq(path, 1, Len(path) - 1) ELSE path

cwdParent == cygwinify(dirname(Cwd))

(***************************************************************************)
(* parseLine.  The result is a FileState record, or ParseError when the    *)
(* function raises (ValueError of line.index, IndexError of atts[0] and    *)
(* atts[1], the "Wrong path prefix" exception).                            *)
(***************************************************************************)
ParseError == [state |-> "raise", type |-> "raise", change |-> FALSE, path |-> "", newdir |-> FALSE]

FileState(state, type, change, path, newdir) ==
  [state |-> state, type |-> type, change |-> change, path |-> path, newdir |-> newdir]

RECURSIVE LStrip(_)
LStrip(path) == IF StartsWith(path, " ") THEN LStrip(From(path, 1)) ELSE path

parseLine(line) ==
  LET sp    == IndexOf(line, " ")
      atts  == IF sp = 0 THEN line ELSE SubSeq(line, 1, sp - 1)
      state == State(Char(atts, 1))
      entry == IF state # "message" THEN Entry(Char(atts, 2)) ELSE Entry("u")
      change == IF state # "message"
                  THEN xany("cstpoguax", From(atts, 2))
                  ELSE TRUE
      path  == cygwinify(abspath(LStrip(From(line, sp))))
      newdir == SubSeq(atts, 1, 2) = "cd" /\ xall("+", From(atts, 2))
      state2 == IF state = "message" /\ From(atts, 1) = "deleting" THEN "deleted" ELSE state
  IN  IF sp = 0 THEN ParseError                               \* line.index(" ")
      ELSE IF Len(atts) = 0 THEN ParseError                   \* atts[0]
      ELSE IF state # "message" /\ Len(atts) < 2 THEN ParseError  \* atts[1]
      ELSE IF ~(StartsWith(path, cwdParent \o "/") \/ path = cwdParent) THEN ParseError
      ELSE FileState(state2, entry, change, From(path, Len(cwdParent)), newdir)

(***************************************************************************)
(* The distance function, selected once at start-up (lines 226-261): the   *)
(* first library that imports and passes the smoke test, each of them a    *)
(* Levenshtein distance, or else the simple comparison.                    *)
(***************************************************************************)
Min2(a, b) == IF a <= b THEN a ELSE b

\* one row of the edit-distance table: cur holds the entries computed so far
RECURSIVE LevRow(_, _, _, _)
LevRow(prev, c, b, cur) ==
  LET j == Len(cur)
  IN  IF j = Len(b) + 1 THEN cur
      ELSE LevRow(prev, c, b,
                  Append(cur, Min2(Min2(prev[j + 1] + 1, cur[j] + 1),
                                   prev[j] + (IF Char(b, j) = c THEN 0 ELSE 1))))

RECURSIVE LevRows(_, _, _, _)
LevRows(a, b, i, prev) ==
  IF i > Len(a) THEN prev[Len(b) + 1]
  ELSE LevRows(a, b, i + 1, LevRow(prev, Char(a, i), b, <<i>>))

\* the Levenshtein distance the libraries compute (insertions, deletions, replacements)
levenshtein(a, b) == LevRows(a, b, 1, [j \in 1..(Len(b) + 1) |-> j - 1])

\* the fallback of line 259
simpleDistance(a, b) == IF a = b THEN 0 ELSE 1

Strategies == {"levenshtein", "simple"}

distance(strat, a, b) == IF strat = "levenshtein" THEN levenshtein(a, b) ELSE simpleDistance(a, b)

(***************************************************************************)
(* List helpers (a list comprehension is SelectSeq: it keeps the order).    *)
(***************************************************************************)
Paths(s) == [i \in 1..Len(s) |-> s[i].path]

Elems(s) == {s[i] : i \in 1..Len(s)}

\* Python's order on (distance, path) tuples
TupleLess(x, y) == x[1] < y[1] \/ (x[1] = y[1] /\ StrLess(x[2], y[2]))

\* sorted(...) of a collection of distinct tuples
RECURSIVE Sorted(_)
Sorted(S) ==
  IF S = {} THEN <<>>
  ELSE LET m == CHOOSE x \in S : \A y \in S \ {x} : TupleLess(x, y)
       IN  <<m>> \o Sorted(S \ {m})

\* s[:n]
Take(s, n) == SubSeq(s, 1, Min2(n, Len(s)))

(***************************************************************************)
(* Classification, lines 319-337.  Dictionaries are functions from their   *)
(* key set; their iteration order only matters for printing.               *)
(***************************************************************************)
\* line 320: new directory -> paths of the file entries whose path starts with it
newdirsOf(es) ==
  [d \in {e.path : e \in {x \in Elems(es) : x.newdir}} |->
     Paths(SelectSeq(es, LAMBDA e : StartsWith(e.path, d) /\ e.type = "file"))]

\* line 321 with the second test lost: only the new directories themselves are dropped
NotANewdir(p, newdirs) == p \notin DOMAIN newdirs

\* line 321: the condition under which an entry is kept
NotInNewdirs(p, newdirs) ==
  p \notin DOMAIN newdirs /\ ~(\E d \in DOMAIN newdirs : p \in Elems(newdirs[d]))

remaining(es, newdirs) == SelectSeq(es, LAMBDA e : NotInNewdirs(e.path, newdirs))

\* line 326
addNamesOf(es) == SelectSeq(es, LAMBDA f : f.state = "store")

\* line 325 comparing whole paths instead of base names
newByPath(entry, addNames) ==
  Paths(SelectSeq(addNames, LAMBDA e : e # entry /\ entry.path = e.path))

\* line 325
new(entry, addNames) ==
  Paths(SelectSeq(addNames, LAMBDA e : e # entry /\ basename(entry.path) = basename(e.path)))

\* line 327: the raw table, before the split of lines 328-329
rawMoves(es) ==
  LET olds == {e \in Elems(es) : e.type = "unknown" /\ e.state = "deleted"}
  IN  [p \in {e.path : e \in olds} |->
         new(CHOOSE e \in olds : e.path = p, addNamesOf(es))]

\* line 328 (the keys of a dictionary are distinct: the list is a set)
removesOf(raw) == {rem \in DOMAIN raw : raw[rem] = <<>>}

\* line 329
potentialMovesOf(raw) == [k \in DOMAIN raw \ removesOf(raw) |-> raw[k]]

\* line 330
modifiedOf(es, removes, potentialMoves) ==
  Paths(SelectSeq(es, LAMBDA e : /\ e.type = "file"
                              /\ e.change
                              /\ e.path \notin removes
                              /\ e.path \notin DOMAIN potentialMoves))

\* line 331
AddedStates == {"store", "changed"}

addedOf(es, potentialMoves) ==
  Paths(SelectSeq(es, LAMBDA e : /\ e.type = "file"
                              /\ e.state \in AddedStates
                              /\ e.path # ""
                              /\ ~(\E k \in DOMAIN potentialMoves :
                                     e.path \in Elems(potentialMoves[k]))))

\* line 332 left out
allModified(modified, added) == modified

\* line 332
notAdded(modified, added) == SelectSeq(modified, LAMBDA name : name \notin Elems(added))

\* line 334
moveDirsEnabled(addFlag, skip) == ~addFlag /\ ~skip

\* line 336 without the [:MAX_MOVE_DIRS] slice
candidatesUncapped(strat, delname, newdirs) ==
  LET scored == {<<distance(strat, basename(addname), basename(delname)), addname>> :
                   addname \in DOMAIN newdirs}
  IN  SelectSeq(Sorted(scored), LAMBDA t : t[1] < MAX_EDIT_DISTANCE)

\* line 336, the list that is joined into the value of one key
candidates(strat, delname, newdirs) ==
  LET scored == {<<distance(strat, basename(addname), basename(delname)), addname>> :
                   addname \in DOMAIN newdirs}
  IN  Take(SelectSeq(Sorted(scored), LAMBDA t : t[1] < MAX_EDIT_DISTANCE), MAX_MOVE_DIRS)

\* lines 336-337: the joined string is "" exactly when the list is empty
potentialMoveDirsOf(strat, potentialMoves, removes, newdirs) ==
  LET dels == DOMAIN potentialMoves \cup removes
  IN  [k \in {d \in dels : candidates(strat, d, newdirs) # <<>>} |->
         candidates(strat, k, newdirs)]

EmptyMap == [k \in {} |-> <<>>]

EmptyResult ==
  [newdirs |-> EmptyMap, added |-> <<>>, modified |-> <<>>, removes |-> {},
   potentialMoves |-> EmptyMap, potentialMoveDirs |-> EmptyMap]

classify(es, addFlag, skip, strat) ==
  LET newdirs  == newdirsOf(es)
      rest     == remaining(es, newdirs)
      raw      == rawMoves(rest)
      removes  == removesOf(raw)
      moves    == potentialMovesOf(raw)
      added    == addedOf(rest, moves)
      modified == notAdded(modifiedOf(rest, removes, moves), added)
  IN  [newdirs |-> newdirs, added |-> added, modified |-> modified, removes |-> removes,
       potentialMoves |-> moves,
       potentialMoveDirs |-> IF moveDirsEnabled(addFlag, skip)
                               THEN potentialMoveDirsOf(strat, moves, removes, newdirs)
                               ELSE EmptyMap]

(***************************************************************************)
(* Output of the dry run.  The itemized lines are drawn from fixed pools;  *)
(* a batch is a list of at most MaxLines / MaxOutput pool lines, in pool   *)
(* order, repetitions allowed (the categories do not depend on the order   *)
(* of the lines, only the order inside the listed values does).  The       *)
(* character "#" stands for a byte sequence that neither encoding of       *)
(* lines 312-314 decodes.                                                  *)
(***************************************************************************)
MaxOutput == 3

MaxLines == 5

FlowPool ==
  << "*deleting   a/p",        \* a deletion
     ">f+++++++++ b/p",        \* a new file with the same base name
     "cd+++++++++ b/",         \* a new directory
     ".f..t...... q",          \* a file whose time changed
     ".d..t...... ..",         \* the parent folder: its path is empty
     ">f+++++++++ ../../x",    \* a path outside the common parent
     "#" >>                    \* an undecodable line

ClassifyPool ==
  << "*deleting   a/p",
     "*deleting   q",
     ">f+++++++++ b/p",
     ">fcst...... b/p",
     ">f+++++++++ bb/p",
     ".f..t...... q",
     "cd+++++++++ b/",
     "cd+++++++++ bb/",
     "cd+++++++++ e/",
     "cd+++++++++ vwxyz/" >>

Batches(pool, n) ==
  LET idx == UNION {[1..k -> 1..Len(pool)] : k \in 0..n}
  IN  {[i \in 1..Len(s) |-> pool[s[i]]] :
         s \in {t \in idx : \A i \in 1..(Len(t) - 1) : t[i] <= t[i + 1]}}

\* exit statuses of the dry-run process: success, and rsync's "partial transfer due to error"
ExitStatuses == {0, 23}

(***************************************************************************)
(* constructCommand: the options of the command that matter here.          *)
(***************************************************************************)
constructCommand(simulateArg, stats) ==
  IF stats
    THEN [dry |-> TRUE, stats |-> TRUE, rec |-> ~file, addmode |-> "", delete |-> FALSE]
    ELSE [dry |-> simulateArg, stats |-> FALSE, rec |-> ~file,
          addmode |-> IF add THEN "--ignore-existing" ELSE "-u",
          delete |-> sync]

(***************************************************************************)
(* The main script.                                                        *)
(***************************************************************************)
Init ==
  /\ add \in BOOLEAN
  /\ sync \in BOOLEAN
  /\ simulate \in BOOLEAN
  /\ force \in BOOLEAN
  /\ ask \in BOOLEAN
  /\ file \in BOOLEAN
  /\ estimate \in BOOLEAN
  /\ skipMove \in BOOLEAN
  /\ strategy \in Strategies
  /\ pc = "estimate"
  /\ invocations = <<>>
  /\ simStatus = 0
  /\ lines = <<>>
  /\ entries = <<>>
  /\ classified = FALSE
  /\ result = EmptyResult
  /\ exitCode = -1

Options == <<add, sync, simulate, ask, file, estimate, skipMove, strategy>>

\* sys.exit(code) at the given place of the script
Exit(place, code) == pc' = place /\ exitCode' = code

\* an uncaught exception ends the interpreter with status 1
Crash == pc' = "crashed" /\ exitCode' = 1

\* lines 289-302: the --stats run; the two list lookups raise when the tool printed no totals
EstimateRun ==
  /\ pc = "estimate"
  /\ IF estimate
       THEN /\ invocations' = Append(invocations, constructCommand(TRUE, TRUE))
            /\ \E printed \in BOOLEAN :
                 IF printed THEN pc' = "simulation" /\ exitCode' = exitCode ELSE Crash
       ELSE pc' = "simulation" /\ UNCHANGED <<invocations, exitCode>>
  /\ UNCHANGED <<Options, force, simStatus, lines, entries, classified, result>>

\* line 305 with the add-only exemption lost: a preview only on request
simulationOnlyOnRequest == ~file /\ simulate

\* line 305
simulationCondition == ~file /\ (simulate \/ ~add)

\* lines 306-309: the dry run; its exit status is not read
SimulationRunOver(batches, statuses) ==
  /\ pc = "simulation"
  /\ simulationCondition
  /\ \E b \in batches, st \in statuses :
       /\ lines' = b \o <<"">>
       /\ simStatus' = st
  /\ invocations' = Append(invocations, constructCommand(TRUE, FALSE))
  /\ pc' = "parse"
  /\ UNCHANGED <<Options, force, entries, classified, result, exitCode>>

FlowBatches == Batches(FlowPool, MaxOutput)

SimulationRun == SimulationRunOver(FlowBatches, ExitStatuses)

\* line 305, condition false: straight to line 372
NoSimulation ==
  /\ pc = "simulation"
  /\ ~simulationCondition
  /\ pc' = "execute"
  /\ UNCHANGED <<Options, force, invocations, simStatus, lines, entries, classified, result, exitCode>>

\* lines 312-315: a line neither encoding decodes stops in pdb and stays bytes
decodable(line) == ~CharIn("#", line)

\* lines 316-317 as a best-effort parse: a line that fails is skipped
ParseEntriesBestEffort ==
  /\ pc = "parse"
  /\ LET good   == SelectSeq(lines, LAMBDA l : l # "" /\ parseLine(l) # ParseError)
         parsed == [i \in 1..Len(good) |-> parseLine(good[i])]
     IN  entries' = SelectSeq(parsed, LAMBDA e : e.path # "")
  /\ pc' = "classify"
  /\ UNCHANGED <<add, sync, simulate, ask, file, estimate, skipMove, strategy, force,
                 invocations, simStatus, lines, classified, result, exitCode>>

\* lines 310-317: decode, parse, drop the entries with an empty path.  An undecodable
\* line ends in the debugger (or, continued, in the TypeError of bytes.split(" "));
\* an exception of parseLine is not caught.
ParseEntries ==
  /\ pc = "parse"
  /\ LET nonEmpty == SelectSeq(lines, LAMBDA l : l # "")
         parsed   == [i \in 1..Len(nonEmpty) |-> parseLine(nonEmpty[i])]
     IN  IF \E i \in 1..Len(lines) : ~decodable(lines[i])
           THEN Crash /\ entries' = entries
         ELSE IF \E i \in 1..Len(parsed) : parsed[i] = ParseError
           THEN Crash /\ entries' = entries
         ELSE /\ entries' = SelectSeq(parsed, LAMBDA e : e.path # "")
              /\ pc' = "classify"
              /\ exitCode' = exitCode
  /\ UNCHANGED <<Options, force, invocations, simStatus, lines, classified, result>>

\* lines 319-337
Classify ==
  /\ pc = "classify"
  /\ result' = classify(entries, add, skipMove, strategy)
  /\ classified' = TRUE
  /\ pc' = "summary"
  /\ UNCHANGED <<Options, force, invocations, simStatus, lines, entries, exitCode>>

\* line 347
nothingToDo(r) ==
  ~(r.added # <<>> \/ DOMAIN r.newdirs # {} \/ r.modified # <<>> \/ r.removes # {})

\* lines 341-351
Summary ==
  /\ pc = "summary"
  /\ IF nothingToDo(result)
       THEN Exit("exit351", 0)
       ELSE pc' = (IF ask THEN "ask" ELSE "gate") /\ exitCode' = exitCode
  /\ UNCHANGED <<Options, force, invocations, simStatus, lines, entries, classified, result>>

\* what the user may type at the prompt of line 353: a listing, "y", or anything else
Listings == {"a", "t", "c", "r", "m", "M", "A"}

Selections == Listings \cup {"y", ""}

\* lines 352-366
AskLoop ==
  /\ pc = "ask"
  /\ \E selection \in Selections :
       IF selection \in Listings
         THEN UNCHANGED <<pc, force, exitCode>>
       ELSE IF selection = "y"
         THEN force' = TRUE /\ pc' = "gate" /\ exitCode' = exitCode
       ELSE Exit("exit366", 1) /\ force' = force
  /\ UNCHANGED <<Options, invocations, simStatus, lines, entries, classified, result>>

\* line 368 without the force override
harmfulIgnoringForce(r, forceFlag) ==
  Cardinality(r.removes) + Cardinality(DOMAIN r.potentialMoves)
    + Cardinality(DOMAIN r.potentialMoveDirs) > 0

\* line 368
harmful(r, forceFlag) ==
  Cardinality(r.removes) + Cardinality(DOMAIN r.potentialMoves)
    + Cardinality(DOMAIN r.potentialMoveDirs) > 0 /\ ~forceFlag

\* lines 368-370
Gate ==
  /\ pc = "gate"
  /\ IF harmful(result, force) THEN Exit("exit370", 1) ELSE pc' = "execute" /\ exitCode' = exitCode
  /\ UNCHANGED <<Options, force, invocations, simStatus, lines, entries, classified, result>>

\* lines 373-379 without the test of line 373
ExecuteAlways ==
  /\ pc = "execute"
  /\ invocations' = Append(invocations, [dry |-> FALSE, stats |-> FALSE, rec |-> ~file,
                                         addmode |-> IF add THEN "--ignore-existing" ELSE "-u",
                                         delete |-> sync])
  /\ pc' = "done"
  /\ exitCode' = 0
  /\ UNCHANGED <<add, sync, simulate, ask, file, estimate, skipMove, strategy, force,
                 simStatus, lines, entries, classified, result>>

\* lines 373-379
Execute ==
  /\ pc = "execute"
  /\ IF simulate
       THEN Exit("exit375", 0) /\ invocations' = invocations
       ELSE /\ invocations' = Append(invocations, constructCommand(FALSE, FALSE))
            /\ pc' = "done"
            /\ exitCode' = 0
  /\ UNCHANGED <<Options, force, simStatus, lines, entries, classified, result>>

Next ==
  \/ EstimateRun
  \/ SimulationRun
  \/ NoSimulation
  \/ ParseEntries
  \/ Classify
  \/ Summary
  \/ AskLoop
  \/ Gate
  \/ Execute

Spec == Init /\ [][Next]_vars

(***************************************************************************)
(* The classification alone: a preview run (--simulate) over the wider     *)
(* pool of lines, for every setting of add and skip-move and both          *)
(* distance functions.                                                     *)
(***************************************************************************)
InitClassify ==
  /\ add \in BOOLEAN
  /\ skipMove \in BOOLEAN
  /\ strategy \in Strategies
  /\ sync = FALSE
  /\ simulate = TRUE
  /\ force = FALSE
  /\ ask = FALSE
  /\ file = FALSE
  /\ estimate = FALSE
  /\ pc = "simulation"
  /\ invocations = <<>>
  /\ simStatus = 0
  /\ lines = <<>>
  /\ entries = <<>>
  /\ classified = FALSE
  /\ result = EmptyResult
  /\ exitCode = -1

ClassifyBatches == Batches(ClassifyPool, MaxLines)

\* the dry run succeeds
Success == {0}

SimulationRunWide == SimulationRunOver(ClassifyBatches, Success)

NextClassify ==
  \/ SimulationRunWide
  \/ ParseEntries
  \/ Classify

SpecClassify == InitClassify /\ [][NextClassify]_vars

(***************************************************************************)
(* The line parser alone: a preview run whose output lines carry every     *)
(* combination of action marker, entry-type marker, attribute tail and     *)
(* path below.  "h" (hard link) is an action marker and "L" (symlink) an   *)
(* entry-type marker of rsync that the tables of lines 54-55 do not hold;  *)
(* "T" is rsync's "time set to the transfer time".                         *)
(***************************************************************************)
MaxParse == 1

ParseStates == {".", ">", "c", "h"}

ParseTypes == {"f", "d", "L", "u"}

ParseTails == {".........", "+++++++++", "..t......", "cst......", ".T......."}

ParsePaths == {"q", "b/", "../../x"}

ParseLinePool ==
  {s \o t \o r \o " " \o p : s \in ParseStates, t \in ParseTypes, r \in ParseTails, p \in ParsePaths}
    \cup {"*deleting   q", "*deleting   a/p"}

ParseBatches == UNION {[1..k -> ParseLinePool] : k \in 0..MaxParse}

InitParse ==
  /\ add = FALSE
  /\ skipMove = FALSE
  /\ strategy = "levenshtein"
  /\ sync = FALSE
  /\ simulate = TRUE
  /\ force = FALSE
  /\ ask = FALSE
  /\ file = FALSE
  /\ estimate = FALSE
  /\ pc = "simulation"
  /\ invocations = <<>>
  /\ simStatus = 0
  /\ lines = <<>>
  /\ entries = <<>>
  /\ classified = FALSE
  /\ result = EmptyResult
  /\ exitCode = -1

SimulationRunParse == SimulationRunOver(ParseBatches, Success)

NextParse ==
  \/ SimulationRunParse
  \/ ParseEntries
  \/ Classify

SpecParse == InitParse /\ [][NextParse]_vars

(***************************************************************************)
(* Properties of the main script (specification Spec).                     *)
(***************************************************************************)
\* the real (non-simulated) rsync has been started
RealRunStarted == \E i \in 1..Len(invocations) : ~invocations[i].dry

\* position i of the log is a dry-run preview (not the --stats run)
IsPreview(i) == invocations[i].dry /\ ~invocations[i].stats

\* |removed| + |potentialMoves| + |potentialMoveDirectories|
riskCount(r) ==
  Cardinality(r.removes) + Cardinality(DOMAIN r.potentialMoves)
    + Cardinality(DOMAIN r.potentialMoveDirs)

\* C1 as stated: for every combination of the mode flags, the real run is started only
\* after a dry-run preview has been performed and classified.
C1_RealRunOnlyAfterPreview ==
  \A i \in 1..Len(invocations) :
    ~invocations[i].dry => classified /\ \E j \in 1..(i - 1) : IsPreview(j)

\* C1 amended: outside single-file mode and add mode the real run is started only after
\* a dry-run preview has been performed and classified; in single-file mode and in add
\* mode the real run is started with no preview at all.
C1_PreviewUnlessFileOrAdd ==
  \A i \in 1..Len(invocations) :
    ~invocations[i].dry =>
      IF file \/ add
        THEN ~classified /\ ~(\E j \in 1..Len(invocations) : IsPreview(j))
        ELSE classified /\ \E j \in 1..(i - 1) : IsPreview(j)

\* C1 witness: a real run that followed a classified preview
C1_Witness ==
  /\ pc = "done"
  /\ ~file /\ ~add
  /\ classified
  /\ Len(invocations) >= 2
  /\ IsPreview(Len(invocations) - 1)
  /\ ~invocations[Len(invocations)].dry

\* C2: after a preview with removed, potentialMoves or potentialMoveDirectories
\* non-empty and force false, the real run is never executed: the program stops with
\* a failure exit before the real invocation.
C2_HarmfulStopsWithFailure ==
  (classified /\ riskCount(result) > 0 /\ ~force) =>
    /\ ~RealRunStarted
    /\ pc \in {"summary", "ask", "gate", "exit366", "exit370"}
    /\ exitCode \in {-1, 1}

SomeLineFailsToParse ==
  \E i \in 1..Len(lines) : lines[i] # "" /\ decodable(lines[i]) /\ parseLine(lines[i]) = ParseError

\* C4: a parse failure on any single line is fatal for the whole preview: no
\* classification result is produced, not even from the other lines, and the real run
\* is never executed.
C4_ParseFailureIsFatal ==
  (SomeLineFailsToParse /\ pc # "parse") =>
    /\ pc = "crashed"
    /\ entries = <<>>
    /\ ~classified
    /\ result = EmptyResult
    /\ ~RealRunStarted

\* C4 witness: the script ended on a parse failure although another line parses
C4_Witness ==
  /\ pc = "crashed"
  /\ SomeLineFailsToParse
  /\ \E i \in 1..Len(lines) : lines[i] # "" /\ decodable(lines[i]) /\ parseLine(lines[i]) # ParseError

\* C5: a failure of the dry run (non-zero exit status or an undecodable line) is
\* fatal: the output is never classified, the real run is never executed, and each of
\* the dry run and the real run is started at most once.
C5_ToolFailureIsFatal ==
  /\ (simStatus # 0 \/ \E i \in 1..Len(lines) : ~decodable(lines[i])) =>
       ~classified /\ ~RealRunStarted
  /\ Cardinality({i \in 1..Len(invocations) : IsPreview(i)}) <= 1
  /\ Cardinality({i \in 1..Len(invocations) : ~invocations[i].dry}) <= 1

\* C6: with --simulate the real run is never executed, whatever the other options and
\* the preview say: the program stops after the simulation.
C6_SimulateNeverExecutes == simulate => ~RealRunStarted /\ pc # "done"

\* C6 witness: a simulation whose preview passed the gate stops at line 375
C6_Witness ==
  /\ simulate
  /\ pc = "exit375"
  /\ classified
  /\ \E i \in 1..Len(invocations) : IsPreview(i)

(***************************************************************************)
(* Properties of the classification (specification SpecClassify).  The     *)
(* batch of records is `entries`: the parsed lines with a non-empty path.  *)
(***************************************************************************)
\* p is a key of newDirectories or listed under one of its keys
Absorbed(p) ==
  \/ p \in DOMAIN result.newdirs
  \/ \E d \in DOMAIN result.newdirs : p \in Elems(result.newdirs[d])

\* the paths of the Deleted, Unknown-type records that newDirectories did not absorb
DeletedPaths ==
  {e.path : e \in {x \in Elems(entries) :
                     x.state = "deleted" /\ x.type = "unknown" /\ ~Absorbed(x.path)}}

\* the paths of all Stored records with the base name of p (a Stored record is never
\* the Deleted record itself)
StoredSameName(p) ==
  {e.path : e \in {x \in Elems(entries) :
                     x.state = "store" /\ basename(x.path) = basename(p)}}

\* the same, among the records that newDirectories did not absorb
StoredSameNameRemaining(p) ==
  {e.path : e \in {x \in Elems(entries) :
                     x.state = "store" /\ basename(x.path) = basename(p) /\ ~Absorbed(x.path)}}

\* C7 as stated: removed and the keys of potentialMoves are disjoint, their union is the
\* set of Deleted, Unknown-type paths not absorbed into newDirectories; such a path is
\* in removed iff no Stored record has its base name, and otherwise it is a key of
\* potentialMoves whose value lists exactly the paths of the same-base-name Stored
\* records.
C7_RemovedMovesPartition ==
  classified =>
    /\ result.removes \cap DOMAIN result.potentialMoves = {}
    /\ result.removes \cup DOMAIN result.potentialMoves = DeletedPaths
    /\ \A p \in DeletedPaths :
         IF StoredSameName(p) = {}
           THEN p \in result.removes
           ELSE /\ p \in DOMAIN result.potentialMoves
                /\ Elems(result.potentialMoves[p]) = StoredSameName(p)

\* C7 amended: as C7, with the candidates restricted to the Stored records that were
\* themselves not absorbed into newDirectories: a Stored file inside a new directory
\* is no candidate, and a deleted path whose only namesakes are such files is removed.
C7_PartitionOverRemaining ==
  classified =>
    /\ result.removes \cap DOMAIN result.potentialMoves = {}
    /\ result.removes \cup DOMAIN result.potentialMoves = DeletedPaths
    /\ \A p \in DeletedPaths :
         IF StoredSameNameRemaining(p) = {}
           THEN p \in result.removes
           ELSE /\ p \in DOMAIN result.potentialMoves
                /\ Elems(result.potentialMoves[p]) = StoredSameNameRemaining(p)

\* C7 witness: one deleted path is removed, another is a potential move whose list
\* leaves out a same-named Stored file inside a new directory
C7_Witness ==
  /\ classified
  /\ result.removes # {}
  /\ \E p \in DOMAIN result.potentialMoves :
       /\ result.potentialMoves[p] # <<>>
       /\ Elems(result.potentialMoves[p]) # StoredSameName(p)

\* keys and listed members of newDirectories
NewdirPaths ==
  DOMAIN result.newdirs \cup UNION {Elems(result.newdirs[d]) : d \in DOMAIN result.newdirs}

\* C8: a path that is a key of newDirectories or listed under a key never appears in
\* added, in modified, in removed, as a key of potentialMoves, inside a potentialMoves
\* candidate list, or as a key of potentialMoveDirectories.
C8_NewdirPathsExcluded ==
  classified =>
    \A p \in NewdirPaths :
      /\ p \notin Elems(result.added)
      /\ p \notin Elems(result.modified)
      /\ p \notin result.removes
      /\ p \notin DOMAIN result.potentialMoves
      /\ \A k \in DOMAIN result.potentialMoves : p \notin Elems(result.potentialMoves[k])
      /\ p \notin DOMAIN result.potentialMoveDirs

\* C8 witness: a new directory with a file listed under it, beside non-empty other
\* categories
C8_Witness ==
  /\ classified
  /\ \E d \in DOMAIN result.newdirs : result.newdirs[d] # <<>>
  /\ result.added # <<>>
  /\ DOMAIN result.potentialMoveDirs # {}

FileEntries == {x \in Elems(entries) : x.type = "file"}

\* the added condition of C9
AddedCondition(e) ==
  /\ e.state \in AddedStates
  /\ \A k \in DOMAIN result.potentialMoves : e.path \notin Elems(result.potentialMoves[k])

\* the modified condition of C9
ModifiedCondition(e) ==
  /\ e.change
  /\ e.path \notin result.removes
  /\ e.path \notin DOMAIN result.potentialMoves

SatisfiesBoth(p) ==
  /\ \E e \in FileEntries : e.path = p /\ AddedCondition(e)
  /\ \E e \in FileEntries : e.path = p /\ ModifiedCondition(e)

\* C9 as stated: added and modified share no path, and a file-type path that satisfies
\* both the added and the modified condition is in added and not in modified.
C9_AddedWinsTies ==
  classified =>
    /\ Elems(result.added) \cap Elems(result.modified) = {}
    /\ \A e \in FileEntries :
         SatisfiesBoth(e.path) =>
           e.path \in Elems(result.added) /\ e.path \notin Elems(result.modified)

\* C9 amended: added and modified share no path, and a file-type path that is not
\* absorbed into newDirectories and satisfies both conditions is in added and not in
\* modified (an absorbed path is in neither).
C9_AddedWinsTiesOutsideNewdirs ==
  classified =>
    /\ Elems(result.added) \cap Elems(result.modified) = {}
    /\ \A e \in FileEntries :
         SatisfiesBoth(e.path) =>
           IF Absorbed(e.path)
             THEN e.path \notin Elems(result.added) /\ e.path \notin Elems(result.modified)
             ELSE e.path \in Elems(result.added) /\ e.path \notin Elems(result.modified)

\* C9 witness: a path outside the new directories satisfies both conditions
C9_Witness ==
  /\ classified
  /\ \E e \in FileEntries :
       SatisfiesBoth(e.path) /\ ~Absorbed(e.path) /\ e.path \in Elems(result.added)

\* C10 as stated: every candidate list of potentialMoveDirectories has at most 2 entries
\* and its distances are strictly increasing.
C10_CappedStrictlyIncreasing ==
  classified =>
    \A k \in DOMAIN result.potentialMoveDirs :
      LET v == result.potentialMoveDirs[k]
      IN  /\ Len(v) <= 2
          /\ \A i \in 1..(Len(v) - 1) : v[i][1] < v[i + 1][1]

\* C10 amended: every candidate list has at most 2 entries and its distances never
\* decrease; entries of equal distance are in ascending order of the candidate path.
C10_CappedNonDecreasing ==
  classified =>
    \A k \in DOMAIN result.potentialMoveDirs :
      LET v == result.potentialMoveDirs[k]
      IN  /\ Len(v) <= 2
          /\ \A i \in 1..(Len(v) - 1) :
               \/ v[i][1] < v[i + 1][1]
               \/ v[i][1] = v[i + 1][1] /\ StrLess(v[i][2], v[i + 1][2])

\* C10 witness: three new directories qualify, two are kept, both at the same distance
C10_Witness ==
  /\ classified
  /\ \E k \in DOMAIN result.potentialMoveDirs :
       LET v == result.potentialMoveDirs[k]
       IN  /\ Len(v) = 2
           /\ v[1][1] = v[2][1]
           /\ Cardinality({d \in DOMAIN result.newdirs :
                             distance(strategy, basename(d), basename(k)) < MAX_EDIT_DISTANCE}) >= 3

(***************************************************************************)
(* Properties of the line parser (specification SpecParse).                *)
(***************************************************************************)
\* the attribute code of a line: the text before its first space
AttsOf(line) == IF CharIn(" ", line) THEN SubSeq(line, 1, IndexOf(line, " ") - 1) ELSE line

\* a line whose action marker is not the message marker
NonMessageLine(line) == line # "" /\ Char(line, 1) # "*"

\* the second attribute character is the file or the directory marker
RecognizedType(line) == Char(AttsOf(line), 2) \in {"f", "d"}

\* the lines that became records: non-empty, with a non-empty rebased path
KeptLines == SelectSeq(lines, LAMBDA l : l # "" /\ parseLine(l).path # "")

Parsed == pc \in {"classify", "summary"}

\* C11: for every non-message line whose second attribute character is not a
\* recognized entry-type character (file or directory) the parser fails with a parse
\* error: it returns no record for the line, and the parse of the output ends there.
C11_UnknownTypeIsParseError ==
  \A i \in 1..Len(lines) :
    (NonMessageLine(lines[i]) /\ ~RecognizedType(lines[i])) =>
      /\ parseLine(lines[i]) = ParseError
      /\ pc # "parse" => pc = "crashed"

\* the attribute characters after the second one
TailOf(line) == From(AttsOf(line), 2)

\* C12 as stated: for every non-message line, the record's changed flag is true iff
\* at least one of attribute positions 3 to 11 holds a marker other than the
\* identity (no-change) marker ".".
C12_ChangedIffNonIdentity ==
  Parsed =>
    /\ Len(entries) = Len(KeptLines)
    /\ \A i \in 1..Len(KeptLines) :
         NonMessageLine(KeptLines[i]) =>
           (entries[i].change <=>
              \E j \in 3..11 : j <= Len(AttsOf(KeptLines[i])) /\ Char(AttsOf(KeptLines[i]), j) # ".")

\* C12 amended: for every non-message line, the record's changed flag is true iff at
\* least one attribute character after the second is one of the letters c, s, t, p, o,
\* g, u, a, x; the creation marker "+" and any other character do not count.
C12_ChangedIffChangeLetter ==
  Parsed =>
    /\ Len(entries) = Len(KeptLines)
    /\ \A i \in 1..Len(KeptLines) :
         NonMessageLine(KeptLines[i]) =>
           (entries[i].change <=>
              \E j \in 1..Len(TailOf(KeptLines[i])) :
                 Char(TailOf(KeptLines[i]), j) \in {"c", "s", "t", "p", "o", "g", "u", "a", "x"})

\* C12 witness: a parsed non-message line whose positions 3 to 11 hold the creation
\* marker became a record with the changed flag false
C12_Witness ==
  /\ Parsed
  /\ \E i \in 1..Len(KeptLines) :
       /\ NonMessageLine(KeptLines[i])
       /\ TailOf(KeptLines[i]) = "+++++++++"
       /\ i <= Len(entries)
       /\ ~entries[i].change

(***************************************************************************)
(* Properties of newDirectories (specification SpecClassify).              *)
(***************************************************************************)
\* p lies strictly inside the subtree of directory d
StrictlyInside(p, d) == p # d /\ StartsWith(p, d \o "/")

\* C13: every path listed under a key d of newDirectories belongs to a file-type
\* record other than d whose path lies strictly inside d's subtree (d followed by a
\* path separator is a prefix of it); a file that lies inside no new directory's
\* subtree, such as one in a sibling directory whose name starts with d's name, is
\* listed under no key and so is not taken out of the other categories.
C13_ListedLiveUnderDirectory ==
  classified =>
    /\ \A d \in DOMAIN result.newdirs :
         \A p \in Elems(result.newdirs[d]) :
           /\ StrictlyInside(p, d)
           /\ \E e \in FileEntries : e.path = p
    /\ \A e \in FileEntries :
         (\A d \in DOMAIN result.newdirs : ~StrictlyInside(e.path, d)) =>
           \A d \in DOMAIN result.newdirs : e.path \notin Elems(result.newdirs[d])

====
